---- MODULE Spec2Model ----
(***************************************************************************)
(* Model of populate.py: the data-population run of the RushMore Pizzeria  *)
(* database.  main() calls seven generators in order inside one database   *)
(* transaction; every generator builds a list of rows from random draws    *)
(* and writes it with execute_values, some of them in chunks.              *)
(*                                                                         *)
(* Strings are sequences of one-character strings, so that they can be     *)
(* split, measured and rebuilt as the code does.  Money is integer cents.  *)
(* A relation holds, per row, the server-assigned id, the foreign keys,    *)
(* the amounts and the ordinal of the generated row it was made from; the  *)
(* descriptive columns (names, addresses, timestamps, status, unit, stock) *)
(* are drawn from the synthesizer, are read by nothing, and are left out.  *)
(***************************************************************************)
EXTENDS Integers, Sequences, FiniteSets, TLC

VARIABLES
  pc,              \* position of the run (the statement about to execute)
  args,            \* argparse result: the requested counts
  guest_rate,      \* create_orders' guest_rate, a fraction <<numerator, denominator>>
  rng,             \* the values the random source returns in this run, per draw
  committed,       \* the relations as other sessions see them
  tx,              \* the relations as this run's cursor sees them
  store_ids, customer_ids, ingredient_ids, menu_item_ids,   \* main's locals
  rows,            \* the row list the running generator has built so far
  seen,            \* faker.unique: the raw values already handed out
  names,           \* create_ingredients' name set
  i,               \* offset of the next chunk in a chunked loop
  ids,             \* identifiers accumulated by a chunked insert loop
  inserted_count,  \* create_order_items' count of inserted rows
  order_ids,       \* create_order_items' list of order ids
  menu_map,        \* create_order_items' item_id -> price, as <<item_id, price>> pairs
  order_totals,    \* create_order_items' order_id -> total, as <<total, order_id>> pairs in insertion order
  ret,             \* what the last call returned or raised
  raw              \* argument of a masking call made on its own

inputVars == <<args, guest_rate, rng>>
mainVars == <<inputVars, store_ids, customer_ids, ingredient_ids, menu_item_ids>>
dbVars == <<committed, tx>>
localVars == <<rows, seen, names, i, ids, inserted_count, order_ids, menu_map, order_totals>>
vars == <<pc, mainVars, dbVars, localVars, ret, raw>>

(***************************************************************************)
(* Values                                                                  *)
(***************************************************************************)
None == 0                        \* Python None / SQL NULL; server ids start at 1

Min(a, b) == IF a <= b THEN a ELSE b

Range(s) == {s[k] : k \in 1..Len(s)}

\* sum(s[lo-1:hi]) and sum(s), by halves
RECURSIVE SumBetween(_, _, _)
SumBetween(s, lo, hi) ==
  IF lo > hi THEN 0
  ELSE IF lo = hi THEN s[lo]
  ELSE LET mid == (lo + hi) \div 2
       IN SumBetween(s, lo, mid) + SumBetween(s, mid + 1, hi)

SumSeq(s) == SumBetween(s, 1, Len(s))

\* Sequences over S of length 0..n
SeqsUpTo(S, n) == UNION {[1..k -> S] : k \in 0..n}

\* A call's outcome: a returned value or a raised exception
Return(v) == [exc |-> "", val |-> v]
Raise(e) == [exc |-> e, val |-> <<>>]

(***************************************************************************)
(* Python string operations on character sequences                         *)
(***************************************************************************)
\* c in s
Contains(s, c) == \E k \in 1..Len(s) : s[k] = c

\* s.find(c) + 1, for c in s
IndexOf(s, c) == CHOOSE k \in 1..Len(s) : s[k] = c /\ \A j \in 1..(k-1) : s[j] # c

\* c * n
Repeat(c, n) == [k \in 1..n |-> c]

\* s.replace(c, t) for a one-character c: every occurrence is replaced
RECURSIVE Replace(_, _, _)
Replace(s, c, t) ==
  IF s = <<>> THEN <<>>
  ELSE (IF Head(s) = c THEN t ELSE <<Head(s)>>) \o Replace(Tail(s), c, t)

IsDigit(c) == c \in {"0", "1", "2", "3", "4", "5", "6", "7", "8", "9"}

\* [c for c in s if c.isdigit()]
RECURSIVE DigitsOf(_)
DigitsOf(s) ==
  IF s = <<>> THEN <<>>
  ELSE (IF IsDigit(Head(s)) THEN <<Head(s)>> ELSE <<>>) \o DigitsOf(Tail(s))

DigitChar(d) == <<"0", "1", "2", "3", "4", "5", "6", "7", "8", "9">>[d + 1]

\* str(n) for n >= 0
RECURSIVE Str(_)
Str(n) == IF n < 10 THEN <<DigitChar(n)>> ELSE Str(n \div 10) \o <<DigitChar(n % 10)>>

(***************************************************************************)
(* Masking                                                                 *)
(***************************************************************************)
\* mask_email: the input itself when it is empty or has no '@'; local[0] raises
\* IndexError when the text before the first '@' is empty.
mask_email(email) ==
  IF email = <<>> \/ ~Contains(email, "@") THEN Return(email)
  ELSE LET at == IndexOf(email, "@")
           local == SubSeq(email, 1, at - 1)
           domain == SubSeq(email, at + 1, Len(email))
       IN IF Len(local) = 0 THEN Raise("IndexError")
          ELSE LET masked_local ==
                     IF Len(local) <= 2
                     THEN <<local[1]>> \o Repeat("*", Len(local) - 1)
                     ELSE <<local[1]>> \o Repeat("*", Len(local) - 1)
               IN Return(masked_local \o <<"@">> \o domain)

mask_phone(phone) ==
  IF phone = <<>> THEN phone
  ELSE LET digits == DigitsOf(phone)
       IN IF digits = <<>> THEN phone
          ELSE IF Len(digits) <= 4 THEN Repeat("*", Len(digits))
          ELSE Repeat("*", Len(digits) - 4) \o SubSeq(digits, Len(digits) - 3, Len(digits))

(***************************************************************************)
(* Bounds of the model and the program's constants                         *)
(***************************************************************************)
MaxStores == 1          \* --stores ranges over 0..MaxStores
MaxCustomers == 1       \* --customers
MaxIngredients == 1     \* --ingredients
MaxMenu == 1            \* --menu
MaxOrders == 1          \* --orders
MaxItemCount == 2       \* item_count ranges over 1..MaxItemCount
MaxBatch == 3           \* num_customers of create_customers on its own
MaxLinkedItems == 2     \* menu items of create_item_ingredients on its own
MaxPool == 3            \* ingredient ids of create_item_ingredients on its own
MaxLen == 4             \* length of the text given to mask_email on its own
MaxChunks == 2          \* full chunks of the insert loops on their own
MaxRemaining == 2       \* names create_ingredients' loop still has to add
NumTags == 2            \* the repair tags drawn are the first NumTags of TagLo..TagHi
NumWords == 1           \* size of the vocabulary of faker.word()
RandDenom == 4          \* random.random() ranges over k/RandDenom, k in 0..RandDenom-1

TagLo == 1000
TagHi == 9999
CustomerBatch == 1000
OrderBatch == 1000
OrderItemBatch == 2000
UpdateBatch == 500
min_ings == 2
max_ings == 6
MinQuantity == 1
MaxQuantity == 3

Tags == TagLo..Min(TagHi, TagLo + NumTags - 1)

\* faker.unique.email(): raw addresses, three of them with the same mask
RawEmails ==
  { <<"a", "b", "@", "x">>, <<"a", "c", "@", "x">>, <<"a", "d", "@", "x">>,
    <<"b", "@", "y">> }

\* faker.unique.msisdn(): raw numbers, three of them with the same last four digits
RawPhones ==
  { <<"1", "0", "1", "2", "3">>, <<"2", "0", "1", "2", "3">>, <<"3", "0", "1", "2", "3">>,
    <<"4", "4", "5", "6", "7">> }

basic ==
  << "Tomato", "Cheese", "Pepperoni", "Mushroom", "Basil",
     "Chicken", "Onion", "Peppers", "Olive Oil", "Garlic",
     "Dough", "Sausage", "Spinach", "Feta", "Pineapple",
     "Ham", "Bacon", "Jalapeno", "Corn", "BBQ Sauce" >>

\* faker.word(): word k of the vocabulary; 0 stands for the empty suffix
Words == 1..NumWords

\* round(random.uniform(5.0, 25.0), 2), in cents
PriceChoices == {501, 999}

\* random.uniform(-0.05, 0.10), in thousandths
Perturbations == {-50, 100}

\* random.randint(1, 3)
Quantities == MinQuantity..MaxQuantity

\* max(1, int(random.gauss(avg_items_per_order, 1)))
ItemCounts == 1..MaxItemCount

\* The random source of a run of the whole pipeline, and of a run of
\* create_order_items on its own
PipelineRng ==
  [price |-> {999}, perturbation |-> {100}, quantity |-> Quantities, item_count |-> {1}]
OrderItemsRng ==
  [price |-> PriceChoices, perturbation |-> {-50}, quantity |-> Quantities,
   item_count |-> ItemCounts]

DefaultGuestRate == <<1, 10>>      \* guest_rate=0.10

(***************************************************************************)
(* The database session                                                    *)
(***************************************************************************)
EmptyDb ==
  [stores |-> <<>>, customers |-> <<>>, ingredients |-> <<>>, menu_items |-> <<>>,
   item_ingredients |-> <<>>, orders |-> <<>>, order_items |-> <<>>]

\* What a relation keeps of a generated row r inserted under the serial id n
Stored(relation, n, r) ==
  CASE relation = "menu_items" -> [id |-> n, gen |-> r.gen, price |-> r.price]
    [] relation = "item_ingredients" ->
         [gen |-> r.gen, item_id |-> r.item_id, ingredient_id |-> r.ingredient_id]
    [] relation = "orders" ->
         [id |-> n, gen |-> r.gen, customer_id |-> r.customer_id,
          store_id |-> r.store_id, total_amount |-> r.total_amount]
    [] relation = "order_items" ->
         [id |-> n, gen |-> r.gen, order_id |-> r.order_id, item_id |-> r.item_id,
          quantity |-> r.quantity,
          price_at_time_of_order |-> r.price_at_time_of_order]
    [] OTHER -> [id |-> n, gen |-> r.gen]

\* execute_values(cur, insert, argslist, fetch=True): the rows are appended in the
\* order of argslist, each under the next value of the relation's serial
Inserted(relation, table, argslist) ==
  table \o [k \in 1..Len(argslist) |-> Stored(relation, Len(table) + k, argslist[k])]

\* ... and the RETURNING ids come back in the same order
Returning(table, argslist) == [k \in 1..Len(argslist) |-> Len(table) + k]

\* s[a:b]
Slice(s, a, b) == SubSeq(s, a + 1, Min(b, Len(s)))

ClearLocals ==
  /\ rows' = <<>>
  /\ seen' = [email |-> {}, msisdn |-> {}]
  /\ names' = {}
  /\ i' = 0
  /\ ids' = <<>>
  /\ inserted_count' = 0
  /\ order_ids' = <<>>
  /\ menu_map' = <<>>
  /\ order_totals' = <<>>

\* Mutant of Abort: the rows written before the exception stay and become visible
AbortKeepsRows(e) ==
  /\ pc' = "aborted"
  /\ tx' = tx
  /\ committed' = tx
  /\ ret' = Raise(e)
  /\ ClearLocals
  /\ UNCHANGED <<mainVars, raw>>

\* An exception leaves main's "with get_conn(cfg) as conn" block: the connection
\* rolls the transaction back and the run ends
Abort(e) ==
  /\ pc' = "aborted"
  /\ tx' = committed
  /\ committed' = committed
  /\ ret' = Raise(e)
  /\ ClearLocals
  /\ UNCHANGED <<mainVars, raw>>

(***************************************************************************)
(* create_stores                                                           *)
(***************************************************************************)
create_stores ==
  /\ pc = "create_stores"
  /\ LET stores == [k \in 1..args.stores |-> [gen |-> k]]
     IN /\ tx' = [tx EXCEPT !.stores = Inserted("stores", @, stores)]
        /\ store_ids' = Returning(tx.stores, stores)
  /\ pc' = "create_customers"
  /\ UNCHANGED <<inputVars, customer_ids, ingredient_ids, menu_item_ids,
                 committed, localVars, ret, raw>>

create_stores_fails ==
  /\ pc = "create_stores"
  /\ args.stores > 0
  /\ Abort("psycopg2.Error")

(***************************************************************************)
(* create_customers                                                        *)
(***************************************************************************)
\* any(c[2] == masked_email for c in customers)
EmailTaken(customers, masked_email) == \E k \in 1..Len(customers) : customers[k].email = masked_email
PhoneTaken(customers, masked_phone) == \E k \in 1..Len(customers) : customers[k].phone_number = masked_phone

\* masked_email.replace("@", f"+{tag}@") on a collision
RepairedEmail(customers, masked_email, tag) ==
  IF EmailTaken(customers, masked_email)
  THEN Replace(masked_email, "@", <<"+">> \o Str(tag) \o <<"@">>)
  ELSE masked_email

\* masked_phone + str(tag) on a collision
RepairedPhone(customers, masked_phone, tag) ==
  IF PhoneTaken(customers, masked_phone) THEN masked_phone \o Str(tag) ELSE masked_phone

\* One iteration of "for _ in range(num_customers)"
gen_customer ==
  /\ pc = "create_customers"
  /\ Len(rows) < args.customers
  /\ \E raw_email \in RawEmails \ seen.email, msisdn \in RawPhones \ seen.msisdn,
        tag1 \in Tags, tag2 \in Tags :
       LET masked == mask_email(raw_email)
           raw_phone == Slice(msisdn, 0, 20)
       IN IF masked.exc # "" THEN Abort(masked.exc)
          ELSE /\ rows' = Append(rows,
                      [gen |-> Len(rows) + 1,
                       email |-> RepairedEmail(rows, masked.val, tag1),
                       phone_number |-> RepairedPhone(rows, mask_phone(raw_phone), tag2)])
               /\ seen' = [email |-> seen.email \cup {raw_email},
                           msisdn |-> seen.msisdn \cup {msisdn}]
               /\ UNCHANGED <<pc, mainVars, dbVars, names, i, ids, inserted_count,
                              order_ids, menu_map, order_totals, ret, raw>>

\* The generation loop is over: ids = [], and the insert loop starts at offset 0
customers_generated ==
  /\ pc = "create_customers"
  /\ Len(rows) >= args.customers
  /\ pc' = "customers_insert"
  /\ i' = 0
  /\ ids' = <<>>
  /\ UNCHANGED <<mainVars, dbVars, rows, seen, names, inserted_count, order_ids,
                 menu_map, order_totals, ret, raw>>

\* customers[i:i+batch_size]
CustomerChunk(customers, offset) == Slice(customers, offset, offset + CustomerBatch)

\* Mutant of Extended: the list is assigned where it should be extended
Replaced(acc, returned) == returned

\* ids.extend([row[0] for row in rows])
Extended(acc, returned) == acc \o returned

customers_insert_chunk ==
  /\ pc = "customers_insert"
  /\ i < Len(rows)
  /\ LET chunk == CustomerChunk(rows, i)
     IN /\ tx' = [tx EXCEPT !.customers = Inserted("customers", @, chunk)]
        /\ ids' = Extended(ids, Returning(tx.customers, chunk))
  /\ i' = i + CustomerBatch
  /\ UNCHANGED <<pc, mainVars, committed, rows, seen, names, inserted_count, order_ids,
                 menu_map, order_totals, ret, raw>>

customers_insert_fails ==
  /\ pc = "customers_insert"
  /\ i < Len(rows)
  /\ Abort("psycopg2.Error")

customers_return ==
  /\ pc = "customers_insert"
  /\ i >= Len(rows)
  /\ customer_ids' = ids
  /\ pc' = "create_ingredients"
  /\ ClearLocals
  /\ UNCHANGED <<inputVars, store_ids, ingredient_ids, menu_item_ids, dbVars, ret, raw>>

(***************************************************************************)
(* create_ingredients                                                      *)
(***************************************************************************)
\* A name is <<base, k>>: the base name followed by " " and word k, or by nothing
\* when k = 0.  No base name is another base name followed by a space, so two
\* pairs are equal exactly when the two strings are.
NewName(base, word, nameset) ==
  LET suffix == IF <<base, 0>> \in nameset THEN word ELSE 0
  IN <<base, suffix>>

\* One iteration of "while len(names) < num_ingredients"
ingredient_name ==
  /\ pc = "create_ingredients"
  /\ Cardinality(names) < args.ingredients
  /\ \E base \in Range(basic), word \in Words : names' = names \cup {NewName(base, word, names)}
  /\ UNCHANGED <<pc, mainVars, dbVars, rows, seen, i, ids, inserted_count, order_ids,
                 menu_map, order_totals, ret, raw>>

\* The loop is over: one row per name, written by one execute_values
ingredients_insert ==
  /\ pc = "create_ingredients"
  /\ Cardinality(names) >= args.ingredients
  /\ LET ing == [k \in 1..Cardinality(names) |-> [gen |-> k]]
     IN /\ tx' = [tx EXCEPT !.ingredients = Inserted("ingredients", @, ing)]
        /\ ingredient_ids' = Returning(tx.ingredients, ing)
  /\ pc' = "create_menu_items"
  /\ names' = {}
  /\ UNCHANGED <<inputVars, store_ids, customer_ids, menu_item_ids, committed,
                 rows, seen, i, ids, inserted_count, order_ids, menu_map, order_totals,
                 ret, raw>>

ingredients_insert_fails ==
  /\ pc = "create_ingredients"
  /\ Cardinality(names) >= args.ingredients
  /\ names # {}
  /\ Abort("psycopg2.Error")

(***************************************************************************)
(* create_menu_items                                                       *)
(***************************************************************************)
create_menu_items ==
  /\ pc = "create_menu_items"
  /\ \E prices \in [1..args.menu -> rng.price] :
       LET items == [k \in 1..args.menu |-> [gen |-> k, price |-> prices[k]]]
       IN /\ tx' = [tx EXCEPT !.menu_items = Inserted("menu_items", @, items)]
          /\ menu_item_ids' = Returning(tx.menu_items, items)
  /\ pc' = "create_item_ingredients"
  /\ UNCHANGED <<inputVars, store_ids, customer_ids, ingredient_ids, committed,
                 localVars, ret, raw>>

create_menu_items_fails ==
  /\ pc = "create_menu_items"
  /\ args.menu > 0
  /\ Abort("psycopg2.Error")

(***************************************************************************)
(* create_item_ingredients                                                 *)
(***************************************************************************)
Injective(f) == \A a, b \in DOMAIN f : a # b => f[a] # f[b]

\* Mutant of Sample: k draws with replacement, as random.choices makes them
SampleWithReplacement(population, k) ==
  {[j \in 1..k |-> population[p[j]]] : p \in [1..k -> 1..Len(population)]}

\* random.sample(population, k): k distinct positions of the population, in the
\* order drawn
Sample(population, k) ==
  {[j \in 1..k |-> population[p[j]]] :
     p \in {q \in [1..k -> 1..Len(population)] : Injective(q)}}

\* The rows one menu item gets
ItemRows(item_id, chosen, sofar) ==
  [k \in 1..Len(chosen) |->
     [gen |-> sofar + k, item_id |-> item_id, ingredient_id |-> chosen[k]]]

\* One iteration of "for item_id in menu_item_ids"
gen_item_ingredients ==
  /\ pc = "create_item_ingredients"
  /\ i < Len(menu_item_ids)
  /\ \E num_ings \in min_ings..max_ings :
       \E chosen \in Sample(ingredient_ids, Min(num_ings, Len(ingredient_ids))) :
         rows' = rows \o ItemRows(menu_item_ids[i + 1], chosen, Len(rows))
  /\ i' = i + 1
  /\ UNCHANGED <<pc, mainVars, dbVars, seen, names, ids, inserted_count, order_ids,
                 menu_map, order_totals, ret, raw>>

item_ingredients_insert ==
  /\ pc = "create_item_ingredients"
  /\ i >= Len(menu_item_ids)
  /\ tx' = [tx EXCEPT !.item_ingredients = Inserted("item_ingredients", @, rows)]
  /\ pc' = "create_orders"
  /\ ClearLocals
  /\ UNCHANGED <<mainVars, committed, ret, raw>>

item_ingredients_insert_fails ==
  /\ pc = "create_item_ingredients"
  /\ i >= Len(menu_item_ids)
  /\ rows # <<>>
  /\ Abort("psycopg2.Error")

(***************************************************************************)
(* create_orders                                                           *)
(***************************************************************************)
\* random.random() > guest_rate, for the draw k/RandDenom
AboveGuestRate(k, rate) == k * rate[2] > rate[1] * RandDenom

\* random.choice(customer_ids) if customer_ids and random.random() > guest_rate else None
CustomerChoices(customers, k, rate) ==
  IF customers # <<>> /\ AboveGuestRate(k, rate) THEN Range(customers) ELSE {None}

\* Mutant of StoreChoices: a store number drawn from a range one too long
StoreChoicesOffByOne(stores) == 1..(Len(stores) + 1)

\* random.choice(store_ids)
StoreChoices(stores) == Range(stores)

\* One iteration of "for _ in range(num_orders)"; random.choice raises IndexError
\* on an empty store_ids
gen_order ==
  /\ pc = "create_orders"
  /\ Len(rows) < args.orders
  /\ IF store_ids = <<>> THEN Abort("IndexError")
     ELSE /\ \E k \in 0..(RandDenom - 1) :
               \E customer_id \in CustomerChoices(customer_ids, k, guest_rate),
                  store_id \in StoreChoices(store_ids) :
                 rows' = Append(rows,
                   [gen |-> Len(rows) + 1, customer_id |-> customer_id,
                    store_id |-> store_id, total_amount |-> 0])
          /\ UNCHANGED <<pc, mainVars, dbVars, seen, names, i, ids, inserted_count,
                         order_ids, menu_map, order_totals, ret, raw>>

orders_generated ==
  /\ pc = "create_orders"
  /\ Len(rows) >= args.orders
  /\ pc' = "orders_insert"
  /\ i' = 0
  /\ ids' = <<>>
  /\ UNCHANGED <<mainVars, dbVars, rows, seen, names, inserted_count, order_ids,
                 menu_map, order_totals, ret, raw>>

\* orders[i:i+batch]
OrderChunk(orders, offset) == Slice(orders, offset, offset + OrderBatch)

orders_insert_chunk ==
  /\ pc = "orders_insert"
  /\ i < Len(rows)
  /\ LET chunk == OrderChunk(rows, i)
     IN /\ tx' = [tx EXCEPT !.orders = Inserted("orders", @, chunk)]
        /\ ids' = Extended(ids, Returning(tx.orders, chunk))
  /\ i' = i + OrderBatch
  /\ UNCHANGED <<pc, mainVars, committed, rows, seen, names, inserted_count, order_ids,
                 menu_map, order_totals, ret, raw>>

orders_insert_fails ==
  /\ pc = "orders_insert"
  /\ i < Len(rows)
  /\ Abort("psycopg2.Error")

\* main drops the list create_orders returns
orders_return ==
  /\ pc = "orders_insert"
  /\ i >= Len(rows)
  /\ ret' = Return(ids)
  /\ pc' = "create_order_items"
  /\ ClearLocals
  /\ UNCHANGED <<mainVars, dbVars, raw>>

(***************************************************************************)
(* create_order_items                                                      *)
(***************************************************************************)
\* round(x, 2) of the amount n/d cents: the nearest cent, a tie to the even one
Round2(n, d) ==
  LET q == n \div d
      r == n % d
  IN IF 2 * r < d THEN q
     ELSE IF 2 * r > d THEN q + 1
     ELSE IF q % 2 = 0 THEN q ELSE q + 1

\* round(price * (1 + random.uniform(-0.05, 0.10)), 2), the draw in thousandths
PriceAtTime(price, u) == Round2(price * (1000 + u), 1000)

\* menu_map[item_id]
MenuPrice(map, item_id) == (CHOOSE m \in Range(map) : m[1] = item_id)[2]

\* Mutant of TotalForOrder: the quantity is left out of the running total
RECURSIVE TotalWithoutQuantity(_)
TotalWithoutQuantity(lines) ==
  IF lines = <<>> THEN 0
  ELSE Head(lines).price_at_time_of_order + TotalWithoutQuantity(Tail(lines))

\* total_for_order += price_at_time * quantity, over the lines of one order
RECURSIVE TotalForOrder(_)
TotalForOrder(lines) ==
  IF lines = <<>> THEN 0
  ELSE Head(lines).price_at_time_of_order * Head(lines).quantity + TotalForOrder(Tail(lines))

\* d[key] = value on a dict kept as <<key, value>> pairs in insertion order
DictSet(d, key, value) ==
  IF \E k \in 1..Len(d) : d[k][1] = key
  THEN [k \in 1..Len(d) |-> IF d[k][1] = key THEN <<key, value>> ELSE d[k]]
  ELSE Append(d, <<key, value>>)

\* Mutant of order_items_select: the menu is checked before the orders are
order_items_select_menu_first ==
  /\ pc = "create_order_items"
  /\ IF tx.menu_items = <<>> THEN Abort("RuntimeError")
     ELSE /\ LET order_rows == [k \in 1..Len(tx.orders) |-> tx.orders[k].id]
             IN IF order_rows = <<>>
                THEN /\ ret' = Return([orders |-> 0, order_items |-> 0, revenue |-> 0])
                     /\ pc' = "commit"
                     /\ UNCHANGED order_ids
                ELSE /\ order_ids' = order_rows
                     /\ pc' = "order_items_menu"
                     /\ UNCHANGED ret
          /\ UNCHANGED <<mainVars, dbVars, rows, seen, names, i, ids, inserted_count,
                         menu_map, order_totals, raw>>

\* SELECT order_id FROM orders
order_items_select ==
  /\ pc = "create_order_items"
  /\ LET order_rows == [k \in 1..Len(tx.orders) |-> tx.orders[k].id]
     IN IF order_rows = <<>>
        THEN /\ ret' = Return([orders |-> 0, order_items |-> 0, revenue |-> 0])
             /\ pc' = "commit"
             /\ UNCHANGED order_ids
        ELSE /\ order_ids' = order_rows
             /\ pc' = "order_items_menu"
             /\ UNCHANGED ret
  /\ UNCHANGED <<mainVars, dbVars, rows, seen, names, i, ids, inserted_count, menu_map,
                 order_totals, raw>>

\* SELECT item_id, price FROM menu_items; RuntimeError when there is none
order_items_menu ==
  /\ pc = "order_items_menu"
  /\ LET menu_rows == [k \in 1..Len(tx.menu_items) |->
                         <<tx.menu_items[k].id, tx.menu_items[k].price>>]
     IN IF menu_rows = <<>> THEN Abort("RuntimeError")
        ELSE /\ menu_map' = menu_rows
             /\ pc' = "order_items_gen"
             /\ rows' = <<>>
             /\ order_totals' = <<>>
             /\ i' = 0
             /\ UNCHANGED <<mainVars, dbVars, seen, names, ids, inserted_count,
                            order_ids, ret, raw>>

\* Either SELECT fails
order_items_select_fails ==
  /\ pc \in {"create_order_items", "order_items_menu"}
  /\ Abort("psycopg2.Error")

\* The order_items rows of one order: (oid, item_id, quantity, price_at_time)
OrderLines(oid, draws, map, sofar) ==
  [k \in 1..Len(draws) |->
     [gen |-> sofar + k, order_id |-> oid, item_id |-> draws[k][1],
      quantity |-> draws[k][2],
      price_at_time_of_order |-> PriceAtTime(MenuPrice(map, draws[k][1]), draws[k][3])]]

\* order_totals[oid] = round(total_for_order, 2)
OrderTotal(lines) == Round2(TotalForOrder(lines), 1)

\* One iteration of "for oid in order_ids": every draw is <<item_id, quantity,
\* perturbation>>
gen_order_items ==
  /\ pc = "order_items_gen"
  /\ i < Len(order_ids)
  /\ \E item_count \in rng.item_count :
       \E draws \in [1..item_count ->
                      {m[1] : m \in Range(menu_map)} \X rng.quantity \X rng.perturbation] :
         LET oid == order_ids[i + 1]
             lines == OrderLines(oid, draws, menu_map, Len(rows))
         IN /\ rows' = rows \o lines
            /\ order_totals' = DictSet(order_totals, oid, OrderTotal(lines))
  /\ i' = i + 1
  /\ UNCHANGED <<pc, mainVars, dbVars, seen, names, ids, inserted_count, order_ids,
                 menu_map, ret, raw>>

order_items_generated ==
  /\ pc = "order_items_gen"
  /\ i >= Len(order_ids)
  /\ pc' = "order_items_insert"
  /\ i' = 0
  /\ inserted_count' = 0
  /\ UNCHANGED <<mainVars, dbVars, rows, seen, names, ids, order_ids, menu_map,
                 order_totals, ret, raw>>

\* order_item_rows[i:i+batch]
OrderItemChunk(order_item_rows, offset) ==
  Slice(order_item_rows, offset, offset + OrderItemBatch)

order_items_insert_chunk ==
  /\ pc = "order_items_insert"
  /\ i < Len(rows)
  /\ LET chunk == OrderItemChunk(rows, i)
     IN /\ tx' = [tx EXCEPT !.order_items = Inserted("order_items", @, chunk)]
        /\ inserted_count' = inserted_count + Len(Returning(tx.order_items, chunk))
  /\ i' = i + OrderItemBatch
  /\ UNCHANGED <<pc, mainVars, committed, rows, seen, names, ids, order_ids, menu_map,
                 order_totals, ret, raw>>

order_items_insert_fails ==
  /\ pc = "order_items_insert"
  /\ i < Len(rows)
  /\ Abort("psycopg2.Error")

\* Every chunk is written: the update loop starts at offset 0
order_items_inserted ==
  /\ pc = "order_items_insert"
  /\ i >= Len(rows)
  /\ pc' = "order_items_update"
  /\ i' = 0
  /\ UNCHANGED <<mainVars, dbVars, rows, seen, names, ids, inserted_count, order_ids,
                 menu_map, order_totals, ret, raw>>

\* [(order_totals[oid], oid) for oid in order_totals.keys()]
UpdatePairs(totals) == [k \in 1..Len(totals) |-> <<totals[k][2], totals[k][1]>>]

\* Mutant of UpdateChunk: the slice runs one pair into the next chunk
UpdateChunkOverlapping(update_pairs, offset) ==
  Slice(update_pairs, offset, offset + UpdateBatch + 1)

\* update_pairs[i:i+batch]
UpdateChunk(update_pairs, offset) == Slice(update_pairs, offset, offset + UpdateBatch)

\* UPDATE orders SET total_amount = data.total_amount FROM (VALUES ...) AS
\* data(total_amount, order_id) WHERE orders.order_id = data.order_id
Updated(orders, chunk) ==
  LET data == Range(chunk)
  IN [k \in 1..Len(orders) |->
        IF \E p \in data : p[2] = orders[k].id
        THEN [orders[k] EXCEPT !.total_amount =
                (CHOOSE p \in data : p[2] = orders[k].id)[1]]
        ELSE orders[k]]

order_items_update_chunk ==
  /\ pc = "order_items_update"
  /\ i < Len(UpdatePairs(order_totals))
  /\ tx' = [tx EXCEPT !.orders = Updated(@, UpdateChunk(UpdatePairs(order_totals), i))]
  /\ i' = i + UpdateBatch
  /\ UNCHANGED <<pc, mainVars, committed, rows, seen, names, ids, inserted_count,
                 order_ids, menu_map, order_totals, ret, raw>>

order_items_update_fails ==
  /\ pc = "order_items_update"
  /\ i < Len(UpdatePairs(order_totals))
  /\ Abort("psycopg2.Error")

\* sum(order_totals.values())
TotalRevenue(totals) == SumSeq([k \in 1..Len(totals) |-> totals[k][2]])

\* The summary create_order_items returns
Summary(oids, count, totals) ==
  [orders |-> Len(oids), order_items |-> count, revenue |-> Round2(TotalRevenue(totals), 1)]

order_items_return ==
  /\ pc = "order_items_update"
  /\ i >= Len(UpdatePairs(order_totals))
  /\ ret' = Return(Summary(order_ids, inserted_count, order_totals))
  /\ pc' = "commit"
  /\ ClearLocals
  /\ UNCHANGED <<mainVars, dbVars, raw>>

(***************************************************************************)
(* main                                                                    *)
(***************************************************************************)
\* conn.commit(): what the cursor wrote becomes visible
commit ==
  /\ pc = "commit"
  /\ committed' = tx
  /\ pc' = "done"
  /\ UNCHANGED <<mainVars, tx, localVars, ret, raw>>

commit_fails ==
  /\ pc = "commit"
  /\ Abort("psycopg2.Error")

Counts ==
  [stores : 0..MaxStores, customers : 0..MaxCustomers, ingredients : 0..MaxIngredients,
   menu : 0..MaxMenu, orders : 0..MaxOrders]

\* main has parsed its arguments, opened the connection on the empty schema and
\* is about to call create_stores
Init ==
  /\ pc = "create_stores"
  /\ args \in Counts
  /\ guest_rate = DefaultGuestRate
  /\ rng = PipelineRng
  /\ committed = EmptyDb
  /\ tx = EmptyDb
  /\ store_ids = <<>>
  /\ customer_ids = <<>>
  /\ ingredient_ids = <<>>
  /\ menu_item_ids = <<>>
  /\ rows = <<>>
  /\ seen = [email |-> {}, msisdn |-> {}]
  /\ names = {}
  /\ i = 0
  /\ ids = <<>>
  /\ inserted_count = 0
  /\ order_ids = <<>>
  /\ menu_map = <<>>
  /\ order_totals = <<>>
  /\ ret = Return(<<>>)
  /\ raw = <<>>

Next ==
  \/ create_stores \/ create_stores_fails
  \/ gen_customer \/ customers_generated \/ customers_insert_chunk
  \/ customers_insert_fails \/ customers_return
  \/ ingredient_name \/ ingredients_insert \/ ingredients_insert_fails
  \/ create_menu_items \/ create_menu_items_fails
  \/ gen_item_ingredients \/ item_ingredients_insert \/ item_ingredients_insert_fails
  \/ gen_order \/ orders_generated \/ orders_insert_chunk \/ orders_insert_fails
  \/ orders_return
  \/ order_items_select \/ order_items_menu \/ order_items_select_fails
  \/ gen_order_items \/ order_items_generated \/ order_items_insert_chunk
  \/ order_items_insert_fails \/ order_items_inserted
  \/ order_items_update_chunk \/ order_items_update_fails \/ order_items_return
  \/ commit \/ commit_fails

Spec == Init /\ [][Next]_vars

(***************************************************************************)
(* Properties of the whole run                                             *)
(***************************************************************************)
\* The item_ingredients rows of a menu item, and the order_items rows of an order
LinksOf(db, item_id) ==
  SelectSeq(db.item_ingredients, LAMBDA r : r.item_id = item_id)
LinesOf(db, oid) == SelectSeq(db.order_items, LAMBDA r : r.order_id = oid)

\* round(sum(price_at_time_of_order * quantity), 2) over the rows of one order
LineSum(db, oid) ==
  LET lines == LinesOf(db, oid)
  IN Round2(SumSeq([k \in 1..Len(lines) |->
                      lines[k].price_at_time_of_order * lines[k].quantity]), 1)

\* What the seven stages write when none fails
CompleteOutput(db) ==
  /\ Len(db.stores) = args.stores
  /\ Len(db.customers) = args.customers
  /\ Len(db.ingredients) = args.ingredients
  /\ Len(db.menu_items) = args.menu
  /\ Len(db.orders) = args.orders
  /\ \A m \in Range(db.menu_items) :
       \E k \in min_ings..max_ings : Len(LinksOf(db, m.id)) = Min(k, args.ingredients)
  /\ \A o \in Range(db.orders) :
       /\ LinesOf(db, o.id) # <<>>
       /\ o.total_amount = LineSum(db, o.id)
  /\ \A r \in Range(db.order_items) : \E o \in Range(db.orders) : o.id = r.order_id

\* C3: whatever stage or chunk fails, the committed relations are either as they
\* were before the run (empty) or the complete output of the seven stages, and
\* that only once the run is done.
C3_AtomicRun ==
  \/ committed = EmptyDb
  \/ pc = "done" /\ committed = tx /\ CompleteOutput(committed)

\* A stage failed after create_stores and create_menu_items had written rows
C3_Witness ==
  /\ pc = "aborted"
  /\ store_ids # <<>>
  /\ menu_item_ids # <<>>
  /\ ret.exc = "psycopg2.Error"

\* C5: every order, generated or written, has the id of a store that
\* create_stores returned in this run and that exists, and a customer id that is
\* null or was returned by create_customers in this run and exists; with an empty
\* customer id list every order is a guest order.
C5_OrderReferences ==
  /\ pc \in {"create_orders", "orders_insert"} =>
       \A r \in Range(rows) :
         /\ r.store_id \in Range(store_ids)
         /\ r.customer_id = None \/ r.customer_id \in Range(customer_ids)
  /\ \A o \in Range(tx.orders) \cup Range(committed.orders) :
       /\ o.store_id \in Range(store_ids)
       /\ \E st \in Range(tx.stores) : st.id = o.store_id
       /\ \/ o.customer_id = None
          \/ /\ o.customer_id \in Range(customer_ids)
             /\ \E c \in Range(tx.customers) : c.id = o.customer_id
       /\ customer_ids = <<>> => o.customer_id = None

\* An order of a customer is committed
C5_Witness ==
  /\ pc = "done"
  /\ \E o \in Range(committed.orders) : o.customer_id # None

\* C7: with no order in the orders relation create_order_items writes nothing,
\* returns the summary of zeros, and raises no error of its own, with or without
\* menu items.
C7_ZeroOrders ==
  /\ (pc = "commit" /\ tx.orders = <<>>) =>
       /\ ret = Return([orders |-> 0, order_items |-> 0, revenue |-> 0])
       /\ tx.order_items = <<>>
  /\ args.orders = 0 => ret.exc \in {"", "psycopg2.Error"}

\* create_order_items has returned on a schema with no order and no menu item
C7_Witness ==
  /\ pc = "commit"
  /\ tx.orders = <<>>
  /\ tx.menu_items = <<>>
  /\ ret = Return([orders |-> 0, order_items |-> 0, revenue |-> 0])

(***************************************************************************)
(* create_order_items on its own                                           *)
(***************************************************************************)
\* The relations of a run that has written s stores, c customers, g ingredients,
\* the menu items of the given prices and n guest orders of store 1
Populated(s, c, g, prices, n) ==
  [EmptyDb EXCEPT
     !.stores = [k \in 1..s |-> [id |-> k, gen |-> k]],
     !.customers = [k \in 1..c |-> [id |-> k, gen |-> k]],
     !.ingredients = [k \in 1..g |-> [id |-> k, gen |-> k]],
     !.menu_items = [k \in 1..Len(prices) |-> [id |-> k, gen |-> k, price |-> prices[k]]],
     !.orders = [k \in 1..n |->
                   [id |-> k, gen |-> k, customer_id |-> None, store_id |-> 1,
                    total_amount |-> 0]]]

\* The ids 1..n as the list a generator returned
IdList(n) == [k \in 1..n |-> k]

\* No generator is running
NoLocals ==
  /\ rows = <<>>
  /\ seen = [email |-> {}, msisdn |-> {}]
  /\ names = {}
  /\ i = 0
  /\ ids = <<>>
  /\ inserted_count = 0
  /\ order_ids = <<>>
  /\ menu_map = <<>>
  /\ order_totals = <<>>

\* main is about to call create_order_items
InitOrderItems ==
  /\ pc = "create_order_items"
  /\ rng = OrderItemsRng
  /\ guest_rate = DefaultGuestRate
  /\ \E n \in 0..MaxOrders, m \in 0..MaxMenu :
       \E prices \in [1..m -> rng.price] :
         /\ args = [stores |-> 1, customers |-> 0, ingredients |-> 0, menu |-> m,
                    orders |-> n]
         /\ tx = Populated(1, 0, 0, prices, n)
         /\ menu_item_ids = IdList(m)
         /\ ret = Return(IdList(n))
  /\ committed = EmptyDb
  /\ store_ids = <<1>>
  /\ customer_ids = <<>>
  /\ ingredient_ids = <<>>
  /\ NoLocals
  /\ raw = <<>>

NextOrderItems ==
  \/ order_items_select \/ order_items_menu \/ order_items_select_fails
  \/ gen_order_items \/ order_items_generated \/ order_items_insert_chunk
  \/ order_items_insert_fails \/ order_items_inserted
  \/ order_items_update_chunk \/ order_items_update_fails \/ order_items_return

SpecOrderItems == InitOrderItems /\ [][NextOrderItems]_vars

\* C1: once create_order_items has returned, every order of the orders relation
\* has total_amount equal to the sum, rounded to the cent, of
\* price_at_time_of_order * quantity over its order_items rows.
C1_TotalsReconciled ==
  (pc = "commit" /\ ret.exc = "") =>
    \A o \in Range(tx.orders) : o.total_amount = LineSum(tx, o.id)

\* create_order_items has returned and an order has two lines, one of them of a
\* quantity above one
C1_Witness ==
  /\ pc = "commit"
  /\ ret.exc = ""
  /\ \E o \in Range(tx.orders) :
       /\ Len(LinesOf(tx, o.id)) >= 2
       /\ \E r \in Range(LinesOf(tx, o.id)) : r.quantity > 1
       /\ o.total_amount > 0

(***************************************************************************)
(* create_customers on its own                                             *)
(***************************************************************************)
\* main is about to call create_customers, after create_stores wrote one store
InitCustomers ==
  /\ pc = "create_customers"
  /\ rng = PipelineRng
  /\ guest_rate = DefaultGuestRate
  /\ \E n \in 0..MaxBatch :
       args = [stores |-> 1, customers |-> n, ingredients |-> 0, menu |-> 0, orders |-> 0]
  /\ tx = Populated(1, 0, 0, <<>>, 0)
  /\ committed = EmptyDb
  /\ store_ids = <<1>>
  /\ customer_ids = <<>>
  /\ ingredient_ids = <<>>
  /\ menu_item_ids = <<>>
  /\ NoLocals
  /\ ret = Return(<<>>)
  /\ raw = <<>>

NextCustomers ==
  \/ gen_customer \/ customers_generated \/ customers_insert_chunk
  \/ customers_insert_fails \/ customers_return

SpecCustomers == InitCustomers /\ [][NextCustomers]_vars

\* C2: no two customer rows of the batch create_customers builds have the same
\* stored email, and no two have the same stored phone number.
C2_MaskedUnique ==
  pc \in {"create_customers", "customers_insert"} =>
    \A j, k \in 1..Len(rows) :
      j # k => /\ rows[j].email # rows[k].email
               /\ rows[j].phone_number # rows[k].phone_number

(***************************************************************************)
(* create_orders on its own                                                *)
(***************************************************************************)
GuestRates == {<<0, 1>>, DefaultGuestRate, <<1, 2>>, <<1, 1>>}

\* create_orders is about to run on the ids of s stores and c customers
InitOrders ==
  /\ pc = "create_orders"
  /\ rng = PipelineRng
  /\ guest_rate \in GuestRates
  /\ \E s \in 0..MaxStores, c \in 0..MaxCustomers, n \in 0..MaxOrders :
       /\ args = [stores |-> s, customers |-> c, ingredients |-> 0, menu |-> 0,
                  orders |-> n]
       /\ tx = Populated(s, c, 0, <<>>, 0)
       /\ store_ids = IdList(s)
       /\ customer_ids = IdList(c)
  /\ committed = EmptyDb
  /\ ingredient_ids = <<>>
  /\ menu_item_ids = <<>>
  /\ NoLocals
  /\ ret = Return(<<>>)
  /\ raw = <<>>

NextOrders ==
  \/ gen_order \/ orders_generated \/ orders_insert_chunk \/ orders_insert_fails
  \/ orders_return

SpecOrders == InitOrders /\ [][NextOrders]_vars

\* C4: with guest_rate = 0 and a non-empty customer id list every order
\* create_orders generates or writes has a customer id.
C4_NoGuestAtRateZero ==
  (guest_rate[1] = 0 /\ customer_ids # <<>>) =>
    /\ pc \in {"create_orders", "orders_insert"} =>
         \A r \in Range(rows) : r.customer_id # None
    /\ \A o \in Range(tx.orders) : o.customer_id # None

(***************************************************************************)
(* create_item_ingredients on its own                                      *)
(***************************************************************************)
\* create_item_ingredients is about to run on the ids of m menu items and g
\* ingredients
InitItemIngredients ==
  /\ pc = "create_item_ingredients"
  /\ rng = PipelineRng
  /\ guest_rate = DefaultGuestRate
  /\ \E m \in 0..MaxLinkedItems, g \in 0..MaxPool :
       /\ args = [stores |-> 1, customers |-> 0, ingredients |-> g, menu |-> m,
                  orders |-> 0]
       /\ tx = Populated(1, 0, g, [k \in 1..m |-> 999], 0)
       /\ menu_item_ids = IdList(m)
       /\ ingredient_ids = IdList(g)
  /\ committed = EmptyDb
  /\ store_ids = <<1>>
  /\ customer_ids = <<>>
  /\ NoLocals
  /\ ret = Return(<<>>)
  /\ raw = <<>>

NextItemIngredients ==
  \/ gen_item_ingredients \/ item_ingredients_insert \/ item_ingredients_insert_fails

SpecItemIngredients == InitItemIngredients /\ [][NextItemIngredients]_vars

\* No (item_id, ingredient_id) pair twice among the rows, and every menu item among
\* the first n has min(k, pool size) rows for some k in 2..6
LinksWellFormed(links, n) ==
  /\ \A j, k \in 1..Len(links) :
       j # k => <<links[j].item_id, links[j].ingredient_id>>
                  # <<links[k].item_id, links[k].ingredient_id>>
  /\ \A m \in 1..n :
       \E k \in 2..6 :
         Len(SelectSeq(links, LAMBDA r : r.item_id = menu_item_ids[m]))
           = Min(k, Len(ingredient_ids))

\* C6: the rows create_item_ingredients generates and writes hold no
\* (item_id, ingredient_id) pair twice, and every menu item gets exactly
\* min(k, pool size) of them for some k in 2..6.
C6_DistinctLinks ==
  /\ pc = "create_item_ingredients" => LinksWellFormed(rows, i)
  /\ pc = "create_orders" => LinksWellFormed(tx.item_ingredients, Len(menu_item_ids))

\* Two menu items were linked, from a pool larger than the smallest draw and
\* smaller than the largest, and the rows are written
C6_Witness ==
  /\ pc = "create_orders"
  /\ Len(menu_item_ids) = 2
  /\ Len(ingredient_ids) = 3
  /\ \E m \in Range(menu_item_ids) : Len(LinksOf(tx, m)) = 2
  /\ \E m \in Range(menu_item_ids) : Len(LinksOf(tx, m)) = 3

(***************************************************************************)
(* mask_email on its own                                                   *)
(***************************************************************************)
Alphabet == {"a", "b", "@", "."}

InitMask ==
  /\ pc = "mask_email"
  /\ raw \in SeqsUpTo(Alphabet, MaxLen)
  /\ rng = PipelineRng
  /\ guest_rate = DefaultGuestRate
  /\ args = [stores |-> 0, customers |-> 0, ingredients |-> 0, menu |-> 0, orders |-> 0]
  /\ tx = EmptyDb
  /\ committed = EmptyDb
  /\ store_ids = <<>>
  /\ customer_ids = <<>>
  /\ ingredient_ids = <<>>
  /\ menu_item_ids = <<>>
  /\ NoLocals
  /\ ret = Return(<<>>)

\* masked = mask_email(raw)
mask_email_call ==
  /\ pc = "mask_email"
  /\ ret' = mask_email(raw)
  /\ pc' = "masked"
  /\ UNCHANGED <<mainVars, dbVars, localVars, raw>>

NextMask == mask_email_call

SpecMask == InitMask /\ [][NextMask]_vars

\* The text before the first '@'
LocalPart(s) == SubSeq(s, 1, IndexOf(s, "@") - 1)

\* C8: mask_email returns for every text: the text itself when it is empty or has
\* no '@', else the first character of the local part, one '*' for each other
\* character of it, '@' and the domain as it is.
C8_MaskEmail ==
  pc = "masked" =>
    /\ ret.exc = ""
    /\ IF raw = <<>> \/ ~Contains(raw, "@") THEN ret.val = raw
       ELSE /\ Len(ret.val) = Len(raw)
            /\ ret.val[1] = raw[1]
            /\ \A k \in 2..Len(LocalPart(raw)) : ret.val[k] = "*"
            /\ \A k \in (Len(LocalPart(raw)) + 1)..Len(raw) : ret.val[k] = raw[k]

(***************************************************************************)
(* The chunked insert loops on their own                                   *)
(***************************************************************************)
\* Row counts around the chunk boundaries of a loop
ChunkSizes(batch) ==
  {n \in {c * batch + d : c \in 0..MaxChunks, d \in -2..2} : n >= 0}

\* The k-th raw address and number of a vocabulary that never runs out:
\* "a<k>@x" and the digits of 100000 + k
BigRawEmail(k) == <<"a">> \o Str(k) \o <<"@", "x">>
BigRawPhone(k) == Str(100000 + k)

\* The customers list that the generation loop builds from them: an address is
\* repaired, with the tag TagLo + k, unless it is the first with its number of
\* digits; no two numbers have the same last four digits
BigCustomers(n) ==
  [k \in 1..n |->
     [gen |-> k,
      email |-> IF k \in {1, 10, 100, 1000} THEN mask_email(BigRawEmail(k)).val
                ELSE Replace(mask_email(BigRawEmail(k)).val, "@",
                             <<"+">> \o Str(TagLo + k) \o <<"@">>),
      phone_number |-> mask_phone(BigRawPhone(k))]]

\* The orders list of n guest orders of store 1
BigOrders(n) ==
  [k \in 1..n |-> [gen |-> k, customer_id |-> None, store_id |-> 1, total_amount |-> 0]]

\* The order_items list of n orders of one line each: one piece of item 1
BigOrderItems(n) ==
  [k \in 1..n |->
     [gen |-> k, order_id |-> k, item_id |-> 1, quantity |-> 1,
      price_at_time_of_order |-> PriceAtTime(999, 100)]]

\* create_customers has generated its rows and enters its insert loop
InitCustomersLoop ==
  /\ pc = "customers_insert"
  /\ \E n \in ChunkSizes(CustomerBatch) :
       /\ n < TagHi - TagLo
       /\ args = [stores |-> 1, customers |-> n, ingredients |-> 0, menu |-> 0,
                  orders |-> 0]
       /\ rows = BigCustomers(n)
       /\ seen = [email |-> {BigRawEmail(k) : k \in 1..n},
                  msisdn |-> {BigRawPhone(k) : k \in 1..n}]
  /\ tx = Populated(1, 0, 0, <<>>, 0)
  /\ menu_item_ids = <<>>
  /\ order_ids = <<>>
  /\ menu_map = <<>>
  /\ order_totals = <<>>
  /\ ret = Return(<<>>)

\* create_orders has generated its rows and enters its insert loop
InitOrdersLoop ==
  /\ pc = "orders_insert"
  /\ \E n \in ChunkSizes(OrderBatch) :
       /\ args = [stores |-> 1, customers |-> 0, ingredients |-> 0, menu |-> 0,
                  orders |-> n]
       /\ rows = BigOrders(n)
  /\ seen = [email |-> {}, msisdn |-> {}]
  /\ tx = Populated(1, 0, 0, <<>>, 0)
  /\ menu_item_ids = <<>>
  /\ order_ids = <<>>
  /\ menu_map = <<>>
  /\ order_totals = <<>>
  /\ ret = Return(<<>>)

\* create_order_items has generated its rows and enters its insert loop
InitOrderItemsLoop ==
  /\ pc = "order_items_insert"
  /\ \E n \in ChunkSizes(OrderItemBatch) :
       /\ n > 0
       /\ args = [stores |-> 1, customers |-> 0, ingredients |-> 0, menu |-> 1,
                  orders |-> n]
       /\ rows = BigOrderItems(n)
       /\ tx = Populated(1, 0, 0, <<999>>, n)
       /\ order_ids = IdList(n)
       /\ order_totals = [k \in 1..n |-> <<k, OrderTotal(<<BigOrderItems(n)[k]>>)>>]
       /\ ret = Return(IdList(n))
  /\ seen = [email |-> {}, msisdn |-> {}]
  /\ menu_item_ids = <<1>>
  /\ menu_map = <<<<1, 999>>>>

InitChunk ==
  /\ InitCustomersLoop \/ InitOrdersLoop \/ InitOrderItemsLoop
  /\ rng = PipelineRng
  /\ guest_rate = DefaultGuestRate
  /\ committed = EmptyDb
  /\ store_ids = <<1>>
  /\ customer_ids = <<>>
  /\ ingredient_ids = <<>>
  /\ names = {}
  /\ i = 0
  /\ ids = <<>>
  /\ inserted_count = 0
  /\ raw = <<>>

NextChunk ==
  \/ customers_insert_chunk \/ customers_insert_fails \/ customers_return
  \/ orders_insert_chunk \/ orders_insert_fails \/ orders_return
  \/ order_items_insert_chunk \/ order_items_insert_fails \/ order_items_inserted

SpecChunk == InitChunk /\ [][NextChunk]_vars

\* The first n generated rows, and no other, are in the relation, once each and
\* in the order of generation
Covered(table, n) ==
  /\ Len(table) = n
  /\ \A k \in 1..n : table[k].gen = rows[k].gen

\* The k-th identifier is the id of the row made from the k-th generated row
Aligned(table, idlist) ==
  \A k \in 1..Len(idlist) :
    /\ table[k].gen = k
    /\ table[k].id = idlist[k]
    /\ k > 1 => idlist[k - 1] < idlist[k]

\* C9: in the insert loops of create_customers, create_orders and
\* create_order_items the chunks are consecutive slices that cover the generated
\* rows once each and in order; the identifiers accumulated and returned are as
\* many as the rows written, the k-th one being the k-th row's; after a failed
\* chunk nothing more is written and no identifier list is returned.
C9_ChunkedInsert ==
  /\ pc = "customers_insert" =>
       /\ i % CustomerBatch = 0
       /\ Covered(tx.customers, Min(i, Len(rows)))
       /\ Len(ids) = Len(tx.customers)
       /\ Aligned(tx.customers, ids)
  /\ pc = "create_ingredients" =>
       /\ Len(customer_ids) = args.customers
       /\ Len(tx.customers) = args.customers
       /\ Aligned(tx.customers, customer_ids)
  /\ pc = "orders_insert" =>
       /\ i % OrderBatch = 0
       /\ Covered(tx.orders, Min(i, Len(rows)))
       /\ Len(ids) = Len(tx.orders)
       /\ Aligned(tx.orders, ids)
  /\ pc = "create_order_items" =>
       /\ Len(ret.val) = args.orders
       /\ Len(tx.orders) = args.orders
       /\ Aligned(tx.orders, ret.val)
  /\ pc = "order_items_insert" =>
       /\ i % OrderItemBatch = 0
       /\ Covered(tx.order_items, Min(i, Len(rows)))
       /\ inserted_count = Len(tx.order_items)
  /\ pc = "order_items_update" => Covered(tx.order_items, Len(rows))
  /\ pc = "aborted" =>
       /\ ret.exc # ""
       /\ tx = committed
       /\ customer_ids = <<>>
       /\ ids = <<>>

\* create_customers has written a full chunk and a chunk of one row
C9_Witness ==
  /\ pc = "customers_insert"
  /\ Len(rows) = CustomerBatch + 1
  /\ i >= Len(rows)
  /\ Len(ids) = Len(rows)

(***************************************************************************)
(* create_ingredients on its own                                           *)
(***************************************************************************)
\* Every name the loop can build: the base names, then each of them with word 1,
\* then with word 2, ...
NumNames == Len(basic) * (1 + NumWords)
NameAt(k) == <<basic[((k - 1) % Len(basic)) + 1], (k - 1) \div Len(basic)>>

\* create_ingredients is in its loop, asked for n names, after draws that added
\* the first k names, with at most MaxRemaining more to add and one at least
\* that can still be built
InitIngredients ==
  /\ pc = "create_ingredients"
  /\ \E n \in 0..(NumNames + 1), k \in 0..(NumNames - 1) :
       /\ k <= n
       /\ n - k <= MaxRemaining
       /\ args = [stores |-> 1, customers |-> 0, ingredients |-> n, menu |-> 0,
                  orders |-> 0]
       /\ names = {NameAt(j) : j \in 1..k}
  /\ rng = PipelineRng
  /\ guest_rate = DefaultGuestRate
  /\ tx = Populated(1, 0, 0, <<>>, 0)
  /\ committed = EmptyDb
  /\ store_ids = <<1>>
  /\ customer_ids = <<>>
  /\ ingredient_ids = <<>>
  /\ menu_item_ids = <<>>
  /\ rows = <<>>
  /\ seen = [email |-> {}, msisdn |-> {}]
  /\ i = 0
  /\ ids = <<>>
  /\ inserted_count = 0
  /\ order_ids = <<>>
  /\ menu_map = <<>>
  /\ order_totals = <<>>
  /\ ret = Return(<<>>)
  /\ raw = <<>>

NextIngredients == ingredient_name \/ ingredients_insert \/ ingredients_insert_fails

\* The loop keeps drawing, and a draw that can add a name is eventually made
SpecIngredients == InitIngredients /\ [][NextIngredients]_vars /\ WF_vars(NextIngredients)

\* C10: whatever count is asked for, the name loop of create_ingredients ends,
\* and the rows then written are exactly as many as asked for.
C10_LoopTerminates ==
  /\ <>(pc # "create_ingredients")
  /\ [](pc = "create_menu_items" => Len(tx.ingredients) = args.ingredients)


(***************************************************************************)
(* The life of orders.total_amount                                         *)
(***************************************************************************)
\* create_order_items has generated one line for each of n orders, n around the
\* boundaries of the update chunks, and enters its insert loop
InitReconcileLoop ==
  /\ pc = "order_items_insert"
  /\ \E n \in ChunkSizes(UpdateBatch) :
       /\ n > 0
       /\ args = [stores |-> 1, customers |-> 0, ingredients |-> 0, menu |-> 1,
                  orders |-> n]
       /\ rows = BigOrderItems(n)
       /\ tx = Populated(1, 0, 0, <<999>>, n)
       /\ order_ids = IdList(n)
       /\ order_totals = [k \in 1..n |-> <<k, OrderTotal(<<BigOrderItems(n)[k]>>)>>]
       /\ ret = Return(IdList(n))
  /\ rng = PipelineRng
  /\ guest_rate = DefaultGuestRate
  /\ committed = EmptyDb
  /\ store_ids = <<1>>
  /\ customer_ids = <<>>
  /\ ingredient_ids = <<>>
  /\ menu_item_ids = <<1>>
  /\ menu_map = <<<<1, 999>>>>
  /\ seen = [email |-> {}, msisdn |-> {}]
  /\ names = {}
  /\ i = 0
  /\ ids = <<>>
  /\ inserted_count = 0
  /\ raw = <<>>

\* A whole run from its start, or one that has reached the insert loop of
\* create_order_items with more orders than one update chunk holds
InitReconcile == Init \/ InitReconcileLoop

SpecReconcile == InitReconcile /\ [][Next]_vars

\* The offsets of "for i in range(0, len(update_pairs), batch)"
UpdateOffsets(update_pairs) ==
  {c * UpdateBatch : c \in 0..((Len(update_pairs) + UpdateBatch - 1) \div UpdateBatch - 1)}

\* The order ids of the pairs of one update chunk
ChunkOrderIds(update_pairs, offset) ==
  {p[2] : p \in Range(UpdateChunk(update_pairs, offset))}

\* Every order id is in exactly one update chunk, and no chunk has more than
\* UpdateBatch pairs
OneChunkEach(orders, update_pairs) ==
  LET offsets == UpdateOffsets(update_pairs)
      idsAt == [off \in offsets |-> ChunkOrderIds(update_pairs, off)]
  IN /\ \A off \in offsets : Len(UpdateChunk(update_pairs, off)) <= UpdateBatch
     /\ \A k \in 1..Len(orders) :
          Cardinality({off \in offsets : orders[k].id \in idsAt[off]}) = 1

\* Before the update loop every order carries the 0 of its insert; in the loop
\* at offset i every order_items row is written and the orders of the chunks
\* before i, and no other, carry their computed total; after it every order does
C11_State ==
  /\ pc \notin {"order_items_update", "commit", "done"} =>
       \A k \in 1..Len(tx.orders) : tx.orders[k].total_amount = 0
  /\ pc = "order_items_update" =>
       /\ inserted_count = Len(rows)
       /\ Len(tx.order_items) = Len(rows)
       /\ \A k \in 1..Len(rows) : tx.order_items[k].order_id = rows[k].order_id
       /\ i % UpdateBatch = 0
       /\ OneChunkEach(tx.orders, UpdatePairs(order_totals))
       /\ \A k \in 1..Len(tx.orders) :
            /\ order_totals[k][1] = tx.orders[k].id
            /\ order_totals[k][2] > 0
            /\ tx.orders[k].total_amount =
                 IF k <= i THEN order_totals[k][2] ELSE 0
  /\ pc \in {"commit", "done"} =>
       \A k \in 1..Len(tx.orders) : tx.orders[k].total_amount > 0

\* A step that changes the total_amount of an order is an update chunk that
\* holds the order's id, and the order carried the 0 of its insert
C11_Step ==
  \A k \in 1..Min(Len(tx.orders), Len(tx.orders')) :
    tx.orders'[k].total_amount # tx.orders[k].total_amount =>
      /\ pc = "order_items_update"
      /\ pc' = "order_items_update"
      /\ i' = i + UpdateBatch
      /\ tx.orders[k].id \in ChunkOrderIds(UpdatePairs(order_totals), i)
      /\ tx.orders[k].total_amount = 0

\* C11: an order is inserted with total_amount 0; the only steps that change
\* the total_amount of an order are the update chunks of create_order_items,
\* each of at most UpdateBatch pairs; they run once every order_items row is
\* inserted, every order id is in exactly one of them, and the one update of an
\* order replaces the 0 of its insert by its computed total.
C11_UpdatedOnce == [](C11_State) /\ [][C11_Step]_vars

\* create_order_items has returned after two update chunks, the second of one
\* pair, and every order carries its total
C11_Witness ==
  /\ pc = "commit"
  /\ ret.exc = ""
  /\ Len(tx.orders) = UpdateBatch + 1
  /\ Len(tx.order_items) = UpdateBatch + 1
  /\ \A k \in 1..Len(tx.orders) : tx.orders[k].total_amount > 0

====
